---- MODULE Spec2Model ----
(***************************************************************************)
(* Model of server.js: the /generate-ppt pipeline.                         *)
(*                                                                         *)
(*   getBrowser          lazy process-wide chromium session                *)
(*   withConcurrency     busy-poll admission gate over the counter active  *)
(*   renderSlide         one context + page per slide, screenshot          *)
(*   normalizeTextConfig text input -> (value, options) or null            *)
(*   buildPpt            one page per rendered slide                       *)
(*   app.post            validation, fan-out through Promise.all, response *)
(*                                                                         *)
(* Node runs the handlers on one event loop: a step of the model is one    *)
(* callback together with the chain of microtasks it triggers, that is,    *)
(* the code between two awaits on timers or on the external engines.       *)
(* Every awaited engine call (chromium.launch, newContext, newPage,        *)
(* setContent, screenshot, page.close, context.close, ppt.write) either    *)
(* resolves or rejects.  Sessions are numbered in the order in which the   *)
(* launches resolve; requests are numbered in the order of arrival.        *)
(***************************************************************************)
EXTENDS Integers, Sequences, FiniteSets, TLC

(***************************************************************************)
(* Bounds of the model.                                                    *)
(***************************************************************************)
NumReq == 2            \* requests that arrive during a run
MaxSlides == 3         \* longest slide list of a request
MaxTasks == 5          \* render tasks the requests of a run create in all
MaxFanOut == 5         \* longest slide list where the order at the gate is checked
MaxFailures == 2       \* awaited engine calls that reject during a run
LiveFailures == 1      \* the same, in the runs checked for progress
QueueFailures == 1     \* the same, in the runs checked for admission order

(***************************************************************************)
(* Program constants.                                                      *)
(***************************************************************************)
MAX_CONCURRENCY == 4

Requests == 1..NumReq
Tasks == Requests \X (1..MaxFanOut)

(***************************************************************************)
(* JavaScript values, as far as normalizeTextConfig looks at them.  A      *)
(* primitive is its typeof tag and its literal; an object is its typeof    *)
(* tag and a function from the keys it owns to values.                     *)
(***************************************************************************)
Undefined == [type |-> "undefined", val |-> ""]
Null == [type |-> "null", val |-> ""]
Str(s) == [type |-> "string", val |-> s]
Num(s) == [type |-> "number", val |-> s]
Bool(s) == [type |-> "boolean", val |-> s]
Obj(f) == [type |-> "object", fields |-> f]

\* typeof v (typeof null is "object")
TypeOf(v) == IF v.type = "null" THEN "object" ELSE v.type

\* !v : the falsy values of the language
Falsy(v) ==
  \/ v.type \in {"undefined", "null"}
  \/ v.type = "string" /\ v.val = ""
  \/ v.type = "number" /\ v.val \in {"0", "NaN"}
  \/ v.type = "boolean" /\ v.val = "false"

\* v === undefined || v === null, the test of the ?? operator
Nullish(v) == v.type \in {"undefined", "null"}

\* a ?? b
Coalesce(a, b) == IF Nullish(a) THEN b ELSE a

\* o.k for an object o: undefined when o does not own k
Get(o, k) == IF k \in DOMAIN o.fields THEN o.fields[k] ELSE Undefined

\* variant: on a key of both maps the first one wins
SpreadLeftWins(a, b) ==
  [k \in DOMAIN a \cup DOMAIN b |-> IF k \in DOMAIN a THEN a[k] ELSE b[k]]

\* { ...a, ...b } for two maps from keys to values
Spread(a, b) ==
  [k \in DOMAIN a \cup DOMAIN b |-> IF k \in DOMAIN b THEN b[k] ELSE a[k]]

EmptyMap == [k \in {} |-> Undefined]

AliasKeys == {"value", "content", "text"}

\* const { value, content, text: innerText, options = {}, ...rest } = text
RestOf(o) ==
  [k \in DOMAIN o.fields \ (AliasKeys \cup {"options"}) |-> o.fields[k]]

\* options = {} : the default applies to undefined only; spreading a
\* primitive that is not a string adds no keys
OptionsOf(o) ==
  LET op == Get(o, "options")
  IN  IF op.type = "object" THEN op.fields ELSE EmptyMap

\* const finalValue = value ?? content ?? innerText
FinalValue(o) ==
  Coalesce(Get(o, "value"), Coalesce(Get(o, "content"), Get(o, "text")))

\* the branch typeof text === 'object' of normalizeTextConfig
NormalizeObject(o) ==
  IF Falsy(FinalValue(o)) THEN Null
  ELSE [type |-> "normalized",
        value |-> FinalValue(o),
        options |-> Spread(RestOf(o), OptionsOf(o))]

normalizeTextConfig(text) ==
  IF Falsy(text) THEN Null
  ELSE IF TypeOf(text) = "string"
       THEN [type |-> "normalized", value |-> text, options |-> EmptyMap]
  ELSE IF TypeOf(text) = "object" THEN NormalizeObject(text)
  ELSE Null

(***************************************************************************)
(* The request payloads.  Slide i of a list carries the html token i, so   *)
(* that any two slides of a request render to different images, and one of *)
(* a few text inputs.                                                      *)
(***************************************************************************)
SampleText(i) ==
  IF i % 3 = 1 THEN Undefined
  ELSE IF i % 3 = 2 THEN Str("Hi")
  ELSE Obj([content |-> Str("Body"), fontSize |-> Num("20")])

SlideList(n) == [i \in 1..n |-> [html |-> i, text |-> SampleText(i)]]

\* req.body.slides: absent, or a list of 0..MaxSlides slides
NoSlides == [present |-> FALSE, list |-> <<>>]
Bodies ==
  {NoSlides} \cup {[present |-> TRUE, list |-> SlideList(n)] : n \in 0..MaxSlides}

\* page.screenshot of the document composed from html for request r (whose
\* css it embeds): the PNG of that document
Png(r, html) == [png |-> <<r, html>>]
NoImage == [png |-> <<0, 0>>]
Pending == [image |-> NoImage, text |-> Undefined]

(***************************************************************************)
(* State.                                                                  *)
(***************************************************************************)
VARIABLES
  browser,     \* let browser: 0 is null, k > 0 the k-th session created
  launches,    \* number of calls of chromium.launch so far
  active,      \* let active
  pc,          \* per render task: where its withConcurrency call stands
  context,     \* per render task: "none", "open" or "closed"
  page,        \* per render task: "none", "open" or "closed"
  body,        \* per request: req.body.slides once the request has arrived
  handler,     \* per request: where the route handler stands
  results,     \* per request: the value array of Promise.all
  pages,       \* per request: the slides added to ppt by buildPpt
  built,       \* per request: buildPpt has been invoked
  response,    \* per request: "none", "400", "500" or "document"
  sent,        \* per request: number of responses written to res
  failures,    \* awaited calls that have rejected so far
  textIn,      \* argument of the normalizeTextConfig call under test
  textOut      \* its result

gate == <<browser, launches, active, pc>>
render == <<context, page>>
reqs == <<body, handler, results, pages, built, response, sent>>
norm == <<textIn, textOut>>
vars == <<browser, launches, active, pc, context, page, body,
          handler, results, pages, built, response, sent, failures,
          textIn, textOut>>

\* positions of a render task
Awaits == {"launch", "newContext", "newPage", "setContent", "screenshot",
           "pageClose", "contextClose"}
Running == Awaits
Finished == {"done", "failed"}

TasksOf(r) == {t \in Tasks : t[1] = r /\ pc[t] # "idle"}

\* render tasks created so far
Created == Cardinality({t \in Tasks : pc[t] # "idle"})

InitPipeline ==
  /\ browser = 0
  /\ launches = 0
  /\ active = 0
  /\ pc = [t \in Tasks |-> "idle"]
  /\ context = [t \in Tasks |-> "none"]
  /\ page = [t \in Tasks |-> "none"]
  /\ body = [r \in Requests |-> NoSlides]
  /\ handler = [r \in Requests |-> "idle"]
  /\ results = [r \in Requests |-> <<>>]
  /\ pages = [r \in Requests |-> <<>>]
  /\ built = [r \in Requests |-> FALSE]
  /\ response = [r \in Requests |-> "none"]
  /\ sent = [r \in Requests |-> 0]
  /\ failures = 0

Init ==
  /\ InitPipeline
  /\ textIn = Undefined
  /\ textOut = Null

(***************************************************************************)
(* getBrowser, withConcurrency and the start of renderSlide.  They work on *)
(* a record g of the process-wide variables and the tasks' positions, so   *)
(* that the synchronous fan-out of slides.map can chain them.              *)
(***************************************************************************)
\* getBrowser up to its first suspension, called by task t: with no session
\* it calls chromium.launch and awaits it, otherwise it returns the session
\* and renderSlide goes on to await browser.newContext
GetBrowser(g, t) ==
  IF g.browser = 0
  THEN [g EXCEPT !.launches = @ + 1,
                 !.pc[t] = "launch"]
  ELSE [g EXCEPT !.pc[t] = "newContext"]

\* variant: the loop test lets one caller too many through
GateClosedOffByOne(a) == a > MAX_CONCURRENCY

\* the loop test of withConcurrency
GateClosed(a) == a >= MAX_CONCURRENCY

\* variant: the slot is taken without counting it
EnterUncounted(g, t) ==
  IF GateClosed(g.active)
  THEN [g EXCEPT !.pc[t] = "waiting"]
  ELSE GetBrowser(g, t)

\* withConcurrency from its loop test on: wait 40 ms, or take a slot and call fn
Enter(g, t) ==
  IF GateClosed(g.active)
  THEN [g EXCEPT !.pc[t] = "waiting"]
  ELSE GetBrowser([g EXCEPT !.active = @ + 1], t)

\* variant: the callers of a fan-out all test active before any of them
\* increments it, as they would if the test and the increment were apart
FanOutCheckFirst(g, r, i, n) ==
  LET open == ~GateClosed(g.active)
      mine == {t \in Tasks : t[1] = r /\ t[2] \in i..n}
      start == IF g.browser = 0 THEN "launch" ELSE "newContext"
  IN  [g EXCEPT !.active = IF open THEN @ + Cardinality(mine) ELSE @,
                !.launches = IF open /\ g.browser = 0
                             THEN @ + Cardinality(mine) ELSE @,
                !.pc = [t \in Tasks |->
                          IF t \in mine
                          THEN IF open THEN start ELSE "waiting"
                          ELSE g.pc[t]]]

\* slides.map((s) => withConcurrency(...)) for slides i..n of request r
RECURSIVE FanOut(_, _, _, _)
FanOut(g, r, i, n) ==
  IF i > n THEN g ELSE FanOut(Enter(g, <<r, i>>), r, i + 1, n)

Globals == [browser |-> browser, launches |-> launches, active |-> active,
            pc |-> pc]

SetGlobals(g) ==
  /\ browser' = g.browser
  /\ launches' = g.launches
  /\ active' = g.active
  /\ pc' = g.pc

(***************************************************************************)
(* buildPpt.                                                               *)
(***************************************************************************)
\* image.toString('base64') inside the data URL handed to addImage
DataUrl(image) == [scheme |-> "data:image/png;base64", base64 |-> image.png]

defaultTextOptions ==
  [x |-> Str("5%"), y |-> Str("5%"), w |-> Str("90%"), color |-> Str("363636"),
   fontSize |-> Num("18"), fontFace |-> Str("Arial"), align |-> Str("left")]

\* variant: the text box is added whenever the slide has a text, normalized
\* or not
AddSlideIfText(entry) ==
  [images |-> << [data |-> DataUrl(entry.image), x |-> Num("0"),
                  y |-> Num("0"), w |-> Str("100%"), h |-> Str("100%")] >>,
   texts |-> IF ~Falsy(entry.text)
             THEN << [text |-> entry.text, options |-> defaultTextOptions] >>
             ELSE << >>]

\* the body of slideData.forEach: ppt.addSlide, addImage and maybe addText
AddSlide(entry) ==
  LET normalizedText == normalizeTextConfig(entry.text)
  IN  [images |-> << [data |-> DataUrl(entry.image), x |-> Num("0"),
                      y |-> Num("0"), w |-> Str("100%"), h |-> Str("100%")] >>,
       texts |-> IF normalizedText.type = "normalized"
                 THEN << [text |-> normalizedText.value,
                          options |-> Spread(defaultTextOptions,
                                             normalizedText.options)] >>
                 ELSE << >>]

\* the slides of ppt after slideData.forEach
BuildPpt(slideData) == [i \in 1..Len(slideData) |-> AddSlide(slideData[i])]

(***************************************************************************)
(* The route handler of POST /generate-ppt.                                *)
(***************************************************************************)
\* variant: only a missing list is rejected
InvalidMissingOnly(b) == ~b.present

\* !slides || slides.length === 0
Invalid(b) == ~b.present \/ Len(b.list) = 0

\* variant: the handler goes on at the first fulfilled task (Promise.any)
SettledAny(res) == \E i \in 1..Len(res) : res[i] # Pending

\* every slot of the value array holds a value
Settled(res) == \A i \in 1..Len(res) : res[i] # Pending

\* res.status(code).json(...) or stream.pipe(res), and the handler returns
Respond(r, what) ==
  /\ response' = [response EXCEPT ![r] = what]
  /\ sent' = [sent EXCEPT ![r] = @ + 1]
  /\ handler' = [handler EXCEPT ![r] = "done"]

\* Promise.all over the values res of request r: once every task has
\* fulfilled, the awaiting handler goes on to buildPpt and awaits ppt.write
AwaitAll(r, res) ==
  /\ results' = [results EXCEPT ![r] = res]
  /\ IF handler[r] \in {"idle", "rendering"} /\ Settled(res)
     THEN /\ pages' = [pages EXCEPT ![r] = BuildPpt(res)]
          /\ built' = [built EXCEPT ![r] = TRUE]
          /\ handler' = [handler EXCEPT ![r] = "building"]
     ELSE /\ handler' = [handler EXCEPT ![r] = IF @ = "idle" THEN "rendering" ELSE @]
          /\ UNCHANGED <<pages, built>>
  /\ UNCHANGED <<response, sent>>

\* request r arrives with the slide list b: validation, then the fan-out up
\* to the first suspension of every task, then await Promise.all
Receive(r, b) ==
  /\ handler[r] = "idle"
  /\ r > 1 => handler[r - 1] # "idle"
  /\ body' = [body EXCEPT ![r] = b]
  /\ IF Invalid(b)
     THEN /\ Respond(r, "400")
          /\ UNCHANGED <<gate, results, pages, built>>
     ELSE /\ SetGlobals(FanOut(Globals, r, 1, Len(b.list)))
          /\ AwaitAll(r, [i \in 1..Len(b.list) |-> Pending])
  /\ UNCHANGED <<render, failures, norm>>

\* variant: the gate is a queue, only the longest waiting task tests it
PollFifo(t) ==
  /\ pc[t] = "waiting"
  /\ \A u \in Tasks :
       pc[u] = "waiting" => (u[1] > t[1] \/ (u[1] = t[1] /\ u[2] >= t[2]))
  /\ SetGlobals(Enter(Globals, t))
  /\ UNCHANGED <<render, reqs, failures, norm>>

\* variant: a waiting task of a request that is answered gives up
PollUnlessAnswered(t) ==
  /\ pc[t] = "waiting"
  /\ IF response[t[1]] # "none"
     THEN /\ pc' = [pc EXCEPT ![t] = "failed"]
          /\ UNCHANGED <<browser, launches, active>>
     ELSE SetGlobals(Enter(Globals, t))
  /\ UNCHANGED <<render, reqs, failures, norm>>

\* variant: a waiting task tests the gate once and never looks again
PollAsleep(t) ==
  /\ pc[t] = "waiting"
  /\ UNCHANGED vars

\* the 40 ms timer of a waiting task fires: withConcurrency tests again
Poll(t) ==
  /\ pc[t] = "waiting"
  /\ SetGlobals(Enter(Globals, t))
  /\ UNCHANGED <<render, reqs, failures, norm>>

\* chromium.launch resolves for task t with a session of its own, the next
\* one created: browser = ...; return browser
Launched(t) ==
  /\ pc[t] = "launch"
  /\ browser' = browser + 1
  /\ pc' = [pc EXCEPT ![t] = "newContext"]
  /\ UNCHANGED <<launches, active, render, reqs, failures, norm>>

\* browser.newContext resolves
ContextCreated(t) ==
  /\ pc[t] = "newContext"
  /\ context' = [context EXCEPT ![t] = "open"]
  /\ pc' = [pc EXCEPT ![t] = "newPage"]
  /\ UNCHANGED <<browser, launches, active, page, reqs, failures, norm>>

\* context.newPage resolves
PageCreated(t) ==
  /\ pc[t] = "newPage"
  /\ page' = [page EXCEPT ![t] = "open"]
  /\ pc' = [pc EXCEPT ![t] = "setContent"]
  /\ UNCHANGED <<browser, launches, active, context, reqs, failures, norm>>

\* page.setContent resolves (network idle)
ContentSet(t) ==
  /\ pc[t] = "setContent"
  /\ pc' = [pc EXCEPT ![t] = "screenshot"]
  /\ UNCHANGED <<browser, launches, active, render, reqs, failures, norm>>

\* page.screenshot resolves with the buffer
Screenshot(t) ==
  /\ pc[t] = "screenshot"
  /\ pc' = [pc EXCEPT ![t] = "pageClose"]
  /\ UNCHANGED <<browser, launches, active, render, reqs, failures, norm>>

\* page.close resolves
PageClosed(t) ==
  /\ pc[t] = "pageClose"
  /\ page' = [page EXCEPT ![t] = "closed"]
  /\ pc' = [pc EXCEPT ![t] = "contextClose"]
  /\ UNCHANGED <<browser, launches, active, context, reqs, failures, norm>>

\* variant: the slot is never given back
ReleaseNever(a) == a

\* finally { active-- }
Release(a) == a - 1

\* variant: values are collected in the order of completion
FulfilByArrival(res, i, value) ==
  LET free == {j \in 1..Len(res) : res[j] = Pending}
  IN  [res EXCEPT ![CHOOSE j \in free : \A k \in free : j <= k] = value]

\* the slot of Promise.all that task <<r, i>> fulfils
Fulfil(res, i, value) == [res EXCEPT ![i] = value]

\* variant: renderSlide returns the buffer without closing the context
CloseContextSkipped(ctx, t) == ctx

\* await context.close()
CloseContext(ctx, t) == [ctx EXCEPT ![t] = "closed"]

\* context.close resolves: renderSlide returns the buffer, .then pairs it
\* with s.text, withConcurrency releases the slot and Promise.all gets the
\* value
ContextClosed(t) ==
  LET r == t[1]
      s == body[r].list[t[2]]
  IN  /\ pc[t] = "contextClose"
      /\ context' = CloseContext(context, t)
      /\ pc' = [pc EXCEPT ![t] = "done"]
      /\ active' = Release(active)
      /\ AwaitAll(r, Fulfil(results[r], t[2],
                            [image |-> Png(r, s.html), text |-> s.text]))
      /\ UNCHANGED <<browser, launches, page, body, failures, norm>>

\* variant: the catch block answers whatever the handler has done before
CatchAlways(r) == Respond(r, "500")

\* variant: the catch block logs and sends nothing
CatchSilent(r) == UNCHANGED <<response, sent, handler>>

\* the catch block of the handler runs if the handler still awaits
Catch(r) ==
  IF handler[r] = "rendering"
  THEN Respond(r, "500")
  ELSE UNCHANGED <<response, sent, handler>>

\* the call task t awaits rejects: renderSlide throws past its close calls,
\* withConcurrency releases the slot and Promise.all rejects
Rejected(t) ==
  /\ pc[t] \in Awaits
  /\ failures < MaxFailures
  /\ failures' = failures + 1
  /\ pc' = [pc EXCEPT ![t] = "failed"]
  /\ active' = Release(active)
  /\ Catch(t[1])
  /\ UNCHANGED <<browser, launches, render, body, results, pages,
                 built, norm>>

\* ppt.write resolves: the document is piped to res
Written(r) ==
  /\ handler[r] = "building"
  /\ Respond(r, "document")
  /\ UNCHANGED <<gate, render, body, results, pages, built, failures, norm>>

\* ppt.write rejects: catch
WriteRejected(r) ==
  /\ handler[r] = "building"
  /\ failures < MaxFailures
  /\ failures' = failures + 1
  /\ Respond(r, "500")
  /\ UNCHANGED <<gate, render, body, results, pages, built, norm>>

\* the requests of a run create at most MaxTasks render tasks
Room(b) == Created + Len(b.list) <= MaxTasks

Next ==
  \/ \E r \in Requests, b \in Bodies : Room(b) /\ Receive(r, b)
  \/ \E t \in Tasks : Poll(t)
  \/ \E t \in Tasks : Launched(t)
  \/ \E t \in Tasks : ContextCreated(t)
  \/ \E t \in Tasks : PageCreated(t)
  \/ \E t \in Tasks : ContentSet(t)
  \/ \E t \in Tasks : Screenshot(t)
  \/ \E t \in Tasks : PageClosed(t)
  \/ \E t \in Tasks : ContextClosed(t)
  \/ \E t \in Tasks : Rejected(t)
  \/ \E r \in Requests : Written(r)
  \/ \E r \in Requests : WriteRejected(r)

Spec == Init /\ [][Next]_vars

(***************************************************************************)
(* normalizeTextConfig on its own: calls with the text inputs below.       *)
(***************************************************************************)
ValueSamples == {Null, Str(""), Str("Title")}
ContentSamples == {Str(""), Str("Backup")}
TextSamples == {Str(""), Str("Inner")}
OptionsSamples == {Obj([fontSize |-> Num("30"), bold |-> Bool("true")])}
FontSizeSamples == {Num("20")}

\* the values key k takes in the sample objects
SamplesOf(k) ==
  IF k = "value" THEN ValueSamples
  ELSE IF k = "content" THEN ContentSamples
  ELSE IF k = "text" THEN TextSamples
  ELSE IF k = "options" THEN OptionsSamples
  ELSE FontSizeSamples

ObjectKeys == {"value", "content", "text", "options", "fontSize"}

ObjectInputs ==
  UNION {{Obj(f) : f \in {g \in [K -> UNION {SamplesOf(k) : k \in ObjectKeys}] :
                            \A k \in K : g[k] \in SamplesOf(k)}} :
         K \in SUBSET ObjectKeys}

PrimitiveInputs ==
  {Undefined, Null, Str(""), Str("Hello"), Num("0"), Num("42"),
   Bool("false"), Bool("true")}

TextInputs == PrimitiveInputs \cup ObjectInputs

\* a call normalizeTextConfig(x); a run of these calls ends with one call of
\* buildPpt
Normalize(x) ==
  /\ ~built[1]
  /\ textIn' = x
  /\ textOut' = normalizeTextConfig(x)
  /\ UNCHANGED <<gate, render, reqs, failures>>

\* a call buildPpt(slideData) with n slides, the last of which carries the
\* text input last normalized
Build(n) ==
  LET slideData == [i \in 1..n |->
                      [image |-> Png(1, i),
                       text |-> IF i = n THEN textIn ELSE SampleText(i)]]
  IN  /\ ~built[1]
      /\ results' = [results EXCEPT ![1] = slideData]
      /\ pages' = [pages EXCEPT ![1] = BuildPpt(slideData)]
      /\ built' = [built EXCEPT ![1] = TRUE]
      /\ UNCHANGED <<gate, render, body, handler, response, sent, failures,
                     norm>>

NormNext ==
  \/ \E x \in TextInputs : Normalize(x)
  \/ \E n \in 1..MaxSlides : Build(n)

NormSpec == Init /\ [][NormNext]_vars

\* the engine call task t awaits resolves
Advance(t) ==
  \/ Launched(t)
  \/ ContextCreated(t)
  \/ PageCreated(t)
  \/ ContentSet(t)
  \/ Screenshot(t)
  \/ PageClosed(t)
  \/ ContextClosed(t)

\* Every engine call settles and every timer fires: no render hangs, a
\* waiting task polls again, ppt.write settles.
Fairness ==
  /\ \A t \in Tasks : WF_vars(Advance(t)) /\ WF_vars(Poll(t))
  /\ \A r \in Requests : WF_vars(Written(r))

\* The runs checked for progress: request r arrives with LiveSlides(r)
\* slides, which together fill the gate and leave a task waiting, and at most
\* LiveFailures awaited calls reject.
LiveSlides(r) ==
  IF r = 1 THEN MaxSlides
  ELSE IF r = 2 THEN MaxTasks - MaxSlides
  ELSE 0

LiveBody(r) == [present |-> TRUE, list |-> SlideList(LiveSlides(r))]

LiveNext ==
  \/ \E r \in Requests : Receive(r, LiveBody(r))
  \/ \E t \in Tasks : Poll(t)
  \/ \E t \in Tasks : Launched(t)
  \/ \E t \in Tasks : ContextCreated(t)
  \/ \E t \in Tasks : PageCreated(t)
  \/ \E t \in Tasks : ContentSet(t)
  \/ \E t \in Tasks : Screenshot(t)
  \/ \E t \in Tasks : PageClosed(t)
  \/ \E t \in Tasks : ContextClosed(t)
  \/ \E t \in Tasks : failures < LiveFailures /\ Rejected(t)
  \/ \E r \in Requests : Written(r)
  \/ \E r \in Requests : failures < LiveFailures /\ WriteRejected(r)

FairSpec == Init /\ [][LiveNext]_vars /\ Fairness

\* The runs checked for the order of admission: the first request arrives
\* with MaxFanOut slides and overfills the gate by itself, the later ones
\* arrive with one slide each, so that tasks of different requests wait at
\* the gate, and at most QueueFailures awaited calls reject.
QueueSlides(r) == IF r = 1 THEN MaxFanOut ELSE 1

QueueBody(r) == [present |-> TRUE, list |-> SlideList(QueueSlides(r))]

QueueNext ==
  \/ \E r \in Requests : Receive(r, QueueBody(r))
  \/ \E t \in Tasks : Poll(t)
  \/ \E t \in Tasks : Launched(t)
  \/ \E t \in Tasks : ContextCreated(t)
  \/ \E t \in Tasks : PageCreated(t)
  \/ \E t \in Tasks : ContentSet(t)
  \/ \E t \in Tasks : Screenshot(t)
  \/ \E t \in Tasks : PageClosed(t)
  \/ \E t \in Tasks : ContextClosed(t)
  \/ \E t \in Tasks : failures < QueueFailures /\ Rejected(t)
  \/ \E r \in Requests : Written(r)
  \/ \E r \in Requests : failures < QueueFailures /\ WriteRejected(r)

QueueSpec == Init /\ [][QueueNext]_vars

(***************************************************************************)
(* Properties.                                                             *)
(***************************************************************************)
RunningTasks == {t \in Tasks : pc[t] \in Running}
WaitingTasks == {t \in Tasks : pc[t] = "waiting"}
FailedTasks(r) == {t \in TasksOf(r) : pc[t] = "failed"}
Slides(r) == body[r].list

\* C1: the render tasks admitted by withConcurrency and not yet completed
\* are never more than MAX_CONCURRENCY, whatever the requests and their
\* slide counts.
C1_AtMostMaxInFlight == Cardinality(RunningTasks) <= MAX_CONCURRENCY

\* the gate is full while tasks of two requests are in flight and one waits
C1_GateFull ==
  /\ Cardinality(RunningTasks) = MAX_CONCURRENCY
  /\ WaitingTasks # {}
  /\ \A r \in Requests : \E t \in RunningTasks : t[1] = r

\* C2: chromium.launch is invoked at most once over an execution, also when
\* several renderSlide calls reach getBrowser while no session exists.
C2_LaunchedAtMostOnce == launches <= 1

\* C3: once buildPpt has been handed the values of a request with N slides,
\* there are N entries, entry i holds the image rendered from slide i and the
\* text of slide i, and ppt has one page per entry, in that order.
C3_InputOrderKept ==
  \A r \in Requests :
    built[r] =>
      /\ Len(results[r]) = Len(Slides(r))
      /\ Len(pages[r]) = Len(Slides(r))
      /\ \A i \in 1..Len(Slides(r)) :
           /\ results[r][i].image = Png(r, Slides(r)[i].html)
           /\ results[r][i].text = Slides(r)[i].text
           /\ Len(pages[r][i].images) = 1
           /\ pages[r][i].images[1].data = DataUrl(Png(r, Slides(r)[i].html))

\* a document of MaxSlides pages has been sent
C3_FullDocumentSent ==
  \E r \in Requests :
    /\ response[r] = "document"
    /\ Len(Slides(r)) = MaxSlides
    /\ Len(pages[r]) = MaxSlides

\* C4: if a render task of a request has failed, buildPpt has not been
\* invoked for the request, no document is sent and the answer is the 500
\* error; a document is sent only when all its render tasks succeeded.
C4_AllOrNothing ==
  \A r \in Requests :
    /\ FailedTasks(r) # {} =>
         /\ ~built[r]
         /\ pages[r] = << >>
         /\ response[r] = "500"
    /\ response[r] = "document" =>
         /\ Slides(r) # << >>
         /\ \A i \in 1..Len(Slides(r)) : pc[<<r, i>>] = "done"

\* one task of a request failed after another one of it had succeeded
C4_FailedAmongDone ==
  \E r \in Requests :
    /\ FailedTasks(r) # {}
    /\ \E t \in TasksOf(r) : pc[t] = "done"
    /\ response[r] = "500"

\* C5: a request whose slide list is missing or empty is answered 400, and
\* the step that receives it starts no render and no launch, leaves active
\* alone and does not invoke buildPpt.
NoSlideGiven(b) == ~b.present \/ b.list = << >>

C5_InvalidStep ==
  \A r \in Requests :
    /\ (handler[r] = "idle" /\ handler'[r] # "idle" /\ NoSlideGiven(body'[r])) =>
         /\ response'[r] = "400"
         /\ handler'[r] = "done"
         /\ UNCHANGED <<browser, launches, active, pc, context, page, built,
                        pages>>
    /\ (handler[r] # "idle" /\ NoSlideGiven(body[r])) =>
         /\ response'[r] = "400"
         /\ \A i \in 1..MaxSlides : pc'[<<r, i>>] = "idle"
         /\ ~built'[r]

C5_EmptyListRejected == [][C5_InvalidStep]_vars

\* an empty list has been rejected while renders of another request run
C5_EmptyRejectedWhileBusy ==
  \E r \in Requests :
    /\ response[r] = "400"
    /\ body[r].present
    /\ active > 0

\* C6: active moves by one up for each admission and one down for each
\* completion, failed or not, of an admitted task; it is never negative and
\* is 0 whenever no admitted task is unfinished.
C6_Step ==
  LET admitted == {t \in Tasks : pc[t] \notin Running \cup Finished
                                 /\ pc'[t] \in Running}
      completed == {t \in Tasks : pc[t] \in Running /\ pc'[t] \in Finished}
  IN  /\ active' = active + Cardinality(admitted) - Cardinality(completed)
      /\ \A t \in Tasks : pc[t] \in Finished => pc'[t] = pc[t]
      /\ active' >= 0
      /\ (\A t \in Tasks : pc'[t] \notin Running) => active' = 0

C6_ReleasedOnEveryExit == [][C6_Step]_vars

\* a request that was answered 500 has drained, after the gate had been in use
C6_FailedRequestDrained ==
  \E r \in Requests :
    /\ response[r] = "500"
    /\ FailedTasks(r) # {}
    /\ \E t \in TasksOf(r) : pc[t] = "done"
    /\ \A t \in TasksOf(r) : pc[t] \in Finished
    /\ RunningTasks = {} /\ WaitingTasks = {}
    /\ active = 0

\* C7 as stated: a request is answered, with the document or the 500 error,
\* only after all its render tasks have completed.
C7_AnsweredAfterAllTasks ==
  \A r \in Requests :
    response[r] \in {"document", "500"} =>
      \A t \in TasksOf(r) : pc[t] \in Finished

\* C7 amended: buildPpt runs and the document is sent only after all render
\* tasks of the request have succeeded; the 500 error is sent when the first
\* task fails, whatever the others are doing, or when ppt.write fails.
C7_DocumentAfterAllTasks ==
  \A r \in Requests :
    /\ (built[r] \/ response[r] = "document") =>
         \A i \in 1..Len(Slides(r)) : pc[<<r, i>>] = "done"
    /\ response[r] = "500" => (FailedTasks(r) # {} \/ built[r])

\* the 500 error is out while another task of the request renders and one waits
C7_AnsweredWhileRendering ==
  \E r \in Requests :
    /\ response[r] = "500"
    /\ \E t \in TasksOf(r) : pc[t] \in Running
    /\ \E t \in TasksOf(r) : pc[t] = "done"

\* C8: when one render of a request has failed, the contexts opened by the
\* other renders of the request are closed in the end and stay closed, and
\* once the tasks of a request with exactly one failure have all finished,
\* the other renders hold no open context or page.
C8_NoneLeftOpen ==
  \A r \in Requests :
    (Cardinality(FailedTasks(r)) = 1 /\ \A t \in TasksOf(r) : pc[t] \in Finished)
      => \A t \in TasksOf(r) \ FailedTasks(r) :
           context[t] = "closed" /\ page[t] = "closed"

\* a render that has not failed holds an open context although another
\* render of its request has failed
C8_OpenBesideFailure ==
  \E t \in Tasks :
    context[t] = "open" /\ pc[t] # "failed" /\ FailedTasks(t[1]) # {}

C8_OthersCleanedUp == []C8_NoneLeftOpen /\ <>[]~C8_OpenBesideFailure

\* one task of a full request has failed and the request is answered 500;
\* the others have rendered and closed their pages and contexts
C8_OneFailedOthersClosed ==
  \E r \in Requests :
    /\ Cardinality(FailedTasks(r)) = 1
    /\ Cardinality(TasksOf(r)) = MaxSlides
    /\ handler[r] = "done" /\ response[r] = "500" /\ ~built[r]
    /\ \A t \in TasksOf(r) \ FailedTasks(r) :
         pc[t] = "done" /\ context[t] = "closed" /\ page[t] = "closed"

\* what C9 says of a structured input o: the first of value, content and
\* text that is present and not empty is the value, and the result is null
\* exactly when there is none
C9_Empty(v) == Nullish(v) \/ v = Str("")

C9_Claimed(o, out) ==
  LET cands == <<Get(o, "value"), Get(o, "content"), Get(o, "text")>>
      hits == {i \in 1..3 : ~C9_Empty(cands[i])}
  IN  IF hits = {} THEN out = Null
      ELSE /\ out.type = "normalized"
           /\ out.value = cands[CHOOSE i \in hits : \A j \in hits : i <= j]

\* C9: for a structured text input, the first of value, content and text
\* that is present and non-empty wins, an empty value falls through to a
\* non-empty content, and the result is null exactly when no alias is
\* present and non-empty.
C9_FirstNonEmptyAliasWins ==
  textIn.type = "object" => C9_Claimed(textIn, textOut)

\* C10: once a session has been created the variable browser keeps naming
\* it: no later step, failure or not, replaces or resets it, so that later
\* requests use that same session.
C10_SessionKept == [][browser # 0 => browser' = browser]_vars

\* C11: every page buildPpt adds holds exactly one image, placed at the
\* origin over 100% of the width and height, and holds a text box exactly
\* when the text of its slide normalizes to a non-null value; a slide
\* without text gives a page with the image alone.
C11_FullBleed(img) ==
  /\ img.x = Num("0") /\ img.y = Num("0")
  /\ img.w = Str("100%") /\ img.h = Str("100%")

C11_OneImageTextIffNormalized ==
  \A r \in Requests :
    built[r] =>
      /\ Len(pages[r]) = Len(results[r])
      /\ \A i \in 1..Len(pages[r]) :
           /\ Len(pages[r][i].images) = 1
           /\ C11_FullBleed(pages[r][i].images[1])
           /\ Len(pages[r][i].texts) =
                IF normalizeTextConfig(results[r][i].text).type = "normalized"
                THEN 1 ELSE 0
           /\ results[r][i].text = Undefined => pages[r][i].texts = << >>

\* buildPpt has made a page with the image alone for a slide without text
\* and a page with image and text box for a slide with a structured text
C11_PagesWithAndWithoutText ==
  /\ built[1]
  /\ Len(pages[1]) = 2
  /\ results[1][1].text = Undefined
  /\ Len(pages[1][1].images) = 1 /\ pages[1][1].texts = << >>
  /\ results[1][2].text.type = "object"
  /\ Len(pages[1][2].images) = 1 /\ Len(pages[1][2].texts) = 1

\* C12: once a renderSlide call has finished, with an image or with a
\* failure, the page and the context it opened are closed.
C12_ClosedWhenFinished ==
  \A t \in Tasks :
    pc[t] \in Finished => (context[t] # "open" /\ page[t] # "open")

\* C13: active is the number of tasks admitted and not yet completed, in
\* every state: a slot is given back by the completion of its task and by
\* nothing else, so a render that does not complete keeps its slot.
C13_ActiveCountsInFlight == active = Cardinality(RunningTasks)

\* a render still holds the only slot in use after its request was answered
\* 500 and every other task has finished
C13_SlotHeldAfterAnswer ==
  \E t \in Tasks :
    /\ pc[t] \in Running
    /\ response[t[1]] = "500"
    /\ \A u \in Tasks \ {t} : pc[u] \in Finished \cup {"idle"}
    /\ \E u \in Tasks \ {t} : pc[u] \in Finished
    /\ active = 1

\* C14: the test active < MAX_CONCURRENCY and the increment are one step.
\* A step that admits tasks starts with a free slot, counts each of them
\* and never overfills the gate; of the callers of one fan-out exactly as
\* many are admitted as slots were free, the first ones, and the others
\* find the gate full; a waiter that wakes to a free slot is admitted and
\* counted in that step.
C14_Step ==
  LET arrived == {t \in Tasks : pc[t] = "idle" /\ pc'[t] # "idle"}
      admitted == {t \in Tasks : pc[t] \in {"idle", "waiting"}
                                 /\ pc'[t] \in Running}
      free == IF active < MAX_CONCURRENCY THEN MAX_CONCURRENCY - active ELSE 0
  IN  /\ admitted # {} =>
           /\ active < MAX_CONCURRENCY
           /\ active' = active + Cardinality(admitted)
           /\ active' <= MAX_CONCURRENCY
      /\ arrived # {} =>
           /\ Cardinality(admitted) =
                IF Cardinality(arrived) < free THEN Cardinality(arrived) ELSE free
           /\ \A t \in arrived \ admitted :
                /\ pc'[t] = "waiting"
                /\ active' = MAX_CONCURRENCY
                /\ \A u \in admitted : u[2] < t[2]
      /\ \A t \in Tasks :
           (pc[t] = "waiting" /\ pc'[t] # "waiting") =>
             /\ active < MAX_CONCURRENCY
             /\ pc'[t] \in Running
             /\ active' = active + 1

C14_CheckAndIncrementTogether == [][C14_Step]_vars

\* of two callers of one fan-out the first took the last slot in the step
\* in which the second found the gate full
C14_LastSlotTaken ==
  /\ pc[<<2, 1>>] \in {"launch", "newContext"}
  /\ pc[<<2, 2>>] = "waiting"
  /\ active = MAX_CONCURRENCY
  /\ \A i \in 1..MaxSlides : pc[<<1, i>>] \in Running

\* C15: when every engine call settles and every timer fires, the requests
\* received come to a point after which no task waits at the gate and each
\* of them has its response, for good.
C15_GateDrained ==
  /\ \A t \in Tasks : pc[t] # "waiting"
  /\ \A r \in Requests : handler[r] # "idle" => response[r] # "none"

C15_AdmittedAndAnswered == <>[]C15_GateDrained

\* a task waits at the gate although a failure has freed a slot, and its
\* request has no response yet
C15_WaiterBeforeAdmission ==
  \E t \in Tasks :
    /\ pc[t] = "waiting"
    /\ active < MAX_CONCURRENCY
    /\ response[t[1]] = "none"
    /\ \E r \in Requests \ {t[1]} : response[r] = "500"

\* C16: the gate keeps no order among the waiting tasks.  Whenever two
\* tasks wait and a slot is free, the one whose request arrived later, and
\* which therefore began to wait later, can be admitted by the next step
\* while the earlier one goes on waiting.
C16_LaterWaiterMayPass ==
  \A u, t \in Tasks :
    (/\ pc[u] = "waiting"
     /\ pc[t] = "waiting"
     /\ u[1] < t[1]
     /\ active < MAX_CONCURRENCY)
    => ENABLED (QueueNext /\ pc'[t] \in Running /\ pc'[u] = "waiting")

\* the last task of the first request and the task of the second request
\* both wait, and a slot is free
C16_TwoWaitersGateOpen ==
  /\ pc[<<1, MaxFanOut>>] = "waiting"
  /\ pc[<<2, 1>>] = "waiting"
  /\ active < MAX_CONCURRENCY

\* C19: a request answered 500 keeps its place at the gate.  Its running
\* tasks are counted in active and can take their next step, its waiting
\* tasks are admitted as soon as a slot is free, and while the gate is full
\* no step admits a waiting task of another request.
C19_AnsweredStillAtGate ==
  \A r \in Requests :
    response[r] = "500" =>
      LET mine == {t \in Tasks : t[1] = r /\ pc[t] \in Running}
          others == {t \in Tasks : t[1] # r /\ pc[t] \in Running}
      IN  /\ active = Cardinality(mine) + Cardinality(others)
          /\ \A t \in mine :
               ENABLED (QueueNext /\ pc'[t] # pc[t] /\ pc'[t] # "failed")
          /\ \A t \in Tasks :
               (t[1] = r /\ pc[t] = "waiting" /\ active < MAX_CONCURRENCY)
               => ENABLED (QueueNext /\ pc'[t] \in Running
                                     /\ active' = active + 1)
          /\ \A u \in Tasks :
               (u[1] # r /\ pc[u] = "waiting" /\ Cardinality(mine) = MAX_CONCURRENCY)
               => ~ENABLED (QueueNext /\ pc'[u] \in Running)

\* the first request was answered 500 when one of its tasks failed; its
\* task that waited then has taken the freed slot, its four unfinished
\* tasks fill the gate and the task of the second request waits
C19_OtherRequestDelayed ==
  /\ response[1] = "500"
  /\ pc[<<1, MaxFanOut>>] \in Running
  /\ Cardinality({t \in Tasks : t[1] = 1 /\ pc[t] = "failed"}) = 1
  /\ Cardinality({t \in Tasks : t[1] = 1 /\ pc[t] \in Running}) = MAX_CONCURRENCY
  /\ pc[<<2, 1>>] = "waiting"
  /\ response[2] = "none"

\* C17: for an object input with a resolved value the normalized options
\* are the fields other than value, content, text and options, overlaid by
\* the entries of the options sub-object, which win on a shared key; and the
\* options of the text box buildPpt adds are the defaults overlaid by the
\* normalized options, key by key.
C17_Overlay(low, high, out) ==
  /\ DOMAIN out = DOMAIN low \cup DOMAIN high
  /\ \A k \in DOMAIN high : out[k] = high[k]
  /\ \A k \in DOMAIN low \ DOMAIN high : out[k] = low[k]

C17_OptionsOverlaid ==
  (textIn.type = "object" /\ textOut.type = "normalized") =>
    LET given == textIn.fields
        rest == [k \in DOMAIN given \ {"value", "content", "text", "options"}
                   |-> given[k]]
        explicit == IF "options" \in DOMAIN given
                    THEN given["options"].fields ELSE EmptyMap
    IN  /\ C17_Overlay(rest, explicit, textOut.options)
        /\ built[1] =>
             LET box == pages[1][Len(pages[1])].texts
             IN  /\ Len(box) = 1
                 /\ C17_Overlay(defaultTextOptions, textOut.options,
                                box[1].options)

\* a text box built from an object whose fontSize field and whose options
\* sub-object disagree: the sub-object's fontSize and bold are there, the
\* other defaults are kept
C17_ExplicitOptionsWin ==
  /\ built[1]
  /\ textIn.type = "object"
  /\ {"fontSize", "options"} \subseteq DOMAIN textIn.fields
  /\ textIn.fields["fontSize"] = Num("20")
  /\ textOut.type = "normalized"
  /\ textOut.options["fontSize"] = Num("30")
  /\ LET box == pages[1][Len(pages[1])].texts[1].options
     IN  /\ box["fontSize"] = Num("30")
         /\ box["bold"] = Bool("true")
         /\ box["fontFace"] = Str("Arial")

\* C18: a request has at most one response; it has one exactly when its
\* handler has ended, that one is the 400 error, the 500 error or the
\* document, and a response once given is never followed or replaced by
\* another.
C18_Step ==
  \A r \in Requests :
    /\ sent'[r] <= 1
    /\ sent'[r] = 1 <=> response'[r] \in {"400", "500", "document"}
    /\ sent'[r] = 0 <=> response'[r] = "none"
    /\ handler'[r] = "done" <=> sent'[r] = 1
    /\ response[r] # "none" =>
         (response'[r] = response[r] /\ sent'[r] = sent[r])

C18_ExactlyOneResponse == [][C18_Step]_vars

\* two tasks of a request have failed and the request has its one 500
C18_OneAnswerTwoFailures ==
  \E r \in Requests :
    /\ Cardinality({t \in Tasks : t[1] = r /\ pc[t] = "failed"}) = 2
    /\ sent[r] = 1
    /\ response[r] = "500"

====
